---------------------------- MODULE Spec2Model ----------------------------
(***************************************************************************)
(* computed-style-diff: toggle style sheets and diff the computed styles   *)
(* of the elements on the page.                                            *)
(*                                                                         *)
(* The model follows the latest revision of the library (the one with     *)
(* breakpoints, src/README.md lines 214-484); the pipeline it shares with  *)
(* src/unnamed/part_000 and src/src/index.js is mapped to those files.     *)
(*                                                                         *)
(* JavaScript objects are association lists (sequences of <<key, value>>   *)
(* pairs with distinct keys, in insertion order); the characters of a      *)
(* property name are given by Chars, so that String.prototype.indexOf is   *)
(* a real prefix test.                                                     *)
(***************************************************************************)
EXTENDS Integers, Sequences, FiniteSets, TLC

(***************************************************************************)
(* Bounds of the model                                                     *)
(***************************************************************************)
\* longest list of hrefs a caller passes
MaxHrefs == 2
\* longest list of breakpoints a caller passes
MaxBreakpoints == 2

(***************************************************************************)
(* Generic helpers                                                         *)
(***************************************************************************)
Range(s) == {s[i] : i \in 1..Len(s)}

SeqsUpTo(S, n) == UNION {[1..k -> S] : k \in 0..n}

NoDuplicates(s) == \A i, j \in 1..Len(s) : i # j => s[i] # s[j]

\* the value of a[prop] for a key the object does not have
Undefined == "undefined"

(***************************************************************************)
(* JavaScript objects as association lists                                 *)
(***************************************************************************)
Keys(o) == [i \in 1..Len(o) |-> o[i][1]]

Has(o, k) == \E i \in 1..Len(o) : o[i][1] = k

IndexOfKey(o, k) == CHOOSE i \in 1..Len(o) : o[i][1] = k

Get(o, k) == IF Has(o, k) THEN o[IndexOfKey(o, k)][2] ELSE Undefined

\* o[k] = v: an existing key keeps its position, a new key is appended
Put(o, k, v) ==
    IF Has(o, k) THEN [o EXCEPT ![IndexOfKey(o, k)] = <<k, v>>]
                 ELSE Append(o, <<k, v>>)

RECURSIVE AssignFrom(_, _, _)
AssignFrom(target, source, i) ==
    IF i > Len(source) THEN target
    ELSE AssignFrom(Put(target, source[i][1], source[i][2]), source, i + 1)

\* Object.assign(target, source), also { ...target, ...source }
Assign(target, source) == AssignFrom(target, source, 1)

(***************************************************************************)
(* Property names                                                          *)
(***************************************************************************)
N_color       == "color"
N_margin      == "margin"
N_margin_top  == "margin-top"
N_padding_top == "padding-top"
N_r           == "r"
N_right       == "right"

\* the characters of a property name
Chars(name) ==
    CASE name = N_color       -> <<"c", "o", "l", "o", "r">>
      [] name = N_margin      -> <<"m", "a", "r", "g", "i", "n">>
      [] name = N_margin_top  -> <<"m", "a", "r", "g", "i", "n", "-", "t", "o", "p">>
      [] name = N_padding_top -> <<"p", "a", "d", "d", "i", "n", "g", "-", "t", "o", "p">>
      [] name = N_r           -> <<"r">>
      [] name = N_right       -> <<"r", "i", "g", "h", "t">>

\* key.indexOf(prop) === 0
StartsWith(key, prop) ==
    /\ Len(Chars(prop)) <= Len(Chars(key))
    /\ \A i \in 1..Len(Chars(prop)) : Chars(key)[i] = Chars(prop)[i]

(***************************************************************************)
(* diffObjects                                                             *)
(***************************************************************************)
\* the props argument when no allow-list is given (false / undefined)
NoProps == [given |-> FALSE, list |-> <<>>]
PropsOf(list) == [given |-> TRUE, list |-> list]

\* the null result, and a non-null result object
Null == [null |-> TRUE, obj |-> <<>>]
Obj(o) == [null |-> FALSE, obj |-> o]

\* .filter(key => !props || props.some(prop => key.indexOf(prop) === 0))
KeyAllowed(key, props) ==
    \/ ~props.given
    \/ \E i \in 1..Len(props.list) : StartsWith(key, props.list[i])

RECURSIVE DiffReduce(_, _, _, _, _)
DiffReduce(keys, a, b, i, res) ==
    IF i > Len(keys) THEN res
    ELSE LET prop == keys[i]
             aVal == Get(a, prop)
             bVal == Get(b, prop)
         IN  DiffReduce(keys, a, b, i + 1,
                        IF aVal # bVal THEN Put(res, prop, <<aVal, bVal>>) ELSE res)

DiffObjectsNoSentinel(a, b, props) ==
    Obj(DiffReduce(SelectSeq(Keys(Assign(a, b)), LAMBDA k : KeyAllowed(k, props)),
                   a, b, 1, <<>>))

DiffObjectsExactMatch(a, b, props) ==
    LET allowed(k) == ~props.given \/ \E i \in 1..Len(props.list) : k = props.list[i]
        res == DiffReduce(SelectSeq(Keys(Assign(a, b)), allowed), a, b, 1, <<>>)
    IN  IF Len(res) > 0 THEN Obj(res) ELSE Null

diffObjects(a, b, props) ==
    LET res == DiffReduce(SelectSeq(Keys(Assign(a, b)), LAMBDA k : KeyAllowed(k, props)),
                          a, b, 1, <<>>)
    IN  IF Len(res) > 0 THEN Obj(res) ELSE Null


(***************************************************************************)
(* The host document: elements, selectors, style sheet files, cascade      *)
(***************************************************************************)
\* document.body.querySelectorAll('*'), in document order
AllElements == <<"e1", "e2", "e3">>

\* the hrefs a caller may pass; "a.css" and "./a.css" name the same file
Hrefs == {"a.css", "./a.css", "b.css"}

\* the viewport widths a caller may pass as breakpoints
Widths == {320, 1024}

\* link.href read back: the href resolved against the document's base URL
ResolveURL(href) ==
    IF href = "b.css" THEN "http://host/b.css" ELSE "http://host/a.css"

\* document.body.querySelectorAll(selectorText), in document order
QuerySelectorAll(selectorText) ==
    CASE selectorText = ".box"  -> <<"e1", "e2">>
      [] selectorText = "div"   -> <<"e1", "e2", "e3">>
      [] OTHER                  -> <<>>

\* the rules of the style sheet file at a URL: selectorText, cssText, the
\* property names rule.style enumerates, and the longhand declarations
FileRules(url) ==
    IF url = "http://host/a.css" THEN
      << [selectorText |-> ".box", cssText |-> ".box { color: red; }",
          style |-> <<N_color>>, decls |-> << <<N_color, "red">> >>],
         [selectorText |-> ".box", cssText |-> ".box { margin: 0px; }",
          style |-> <<N_margin>>, decls |-> << <<N_margin_top, "0px">> >>],
         [selectorText |-> ".none", cssText |-> ".none { color: blue; }",
          style |-> <<N_color>>, decls |-> << <<N_color, "blue">> >>] >>
    ELSE
      << [selectorText |-> "div", cssText |-> "div { padding-top: 1vw; }",
          style |-> <<N_padding_top>>, decls |-> << <<N_padding_top, "vw">> >>] >>

\* the property names a computed style declaration enumerates
ComputedProps == <<N_color, N_margin_top, N_padding_top>>

\* the value an element has for a property when no toggled sheet applies
BaseValue(el, prop) ==
    CASE prop = N_color       -> IF el = "e2" THEN "red" ELSE "black"
      [] prop = N_margin_top  -> IF el = "e2" THEN "0px" ELSE "8px"
      [] OTHER                -> IF el = "e2" THEN "4px" ELSE "0px"

\* a declared value resolved at a viewport width
Resolved(value, width) == IF value = "vw" THEN ToString(width) ELSE value

RECURSIVE CascadeRules(_, _, _, _, _, _)
CascadeRules(rules, el, prop, width, i, val) ==
    IF i > Len(rules) THEN val
    ELSE CascadeRules(rules, el, prop, width, i + 1,
           IF /\ el \in Range(QuerySelectorAll(rules[i].selectorText))
              /\ Has(rules[i].decls, prop)
           THEN Resolved(Get(rules[i].decls, prop), width)
           ELSE val)

RECURSIVE CascadeSheets(_, _, _, _, _, _)
CascadeSheets(urls, el, prop, width, i, val) ==
    IF i > Len(urls) THEN val
    ELSE CascadeSheets(urls, el, prop, width, i + 1,
                       CascadeRules(FileRules(urls[i]), el, prop, width, 1, val))

(***************************************************************************)
(* Links, style sheets, rules                                              *)
(*   links : sequence of link elements ever created, [href, loaded]; a     *)
(*           link's index is its identity, and the identity of its sheet   *)
(*   head  : the links attached to document.head, in order                 *)
(***************************************************************************)
\* document.styleSheets: the sheets of the attached links that have loaded
StyleSheets(head, links) == SelectSeq(head, LAMBDA l : links[l].loaded)

\* the sentinel for undefined where a sheet or link identity is expected
NoSheet == 0

\* the first element of s that is in the set ok, NoSheet when there is none
FirstWith(s, ok) ==
    IF \E i \in 1..Len(s) : s[i] \in ok
    THEN s[CHOOSE i \in 1..Len(s) :
             s[i] \in ok /\ \A j \in 1..(i - 1) : s[j] \notin ok]
    ELSE NoSheet

\* document.head.querySelector(`[href="${href}"]`)
QueryLink(head, links, href) ==
    FirstWith(head, {l \in 1..Len(links) : links[l].href = href})

getStyleSheet(head, links, href) ==
    FirstWith(StyleSheets(head, links),
              {l \in 1..Len(links) : ResolveURL(links[l].href) = ResolveURL(href)})

\* [...styleSheet.cssRules]: the rule objects of one sheet
CssRulesOf(links, sheet) ==
    LET rules == FileRules(ResolveURL(links[sheet].href))
    IN  [k \in 1..Len(rules) |->
           [sheet |-> sheet, index |-> k,
            selectorText |-> rules[k].selectorText,
            cssText |-> rules[k].cssText,
            style |-> rules[k].style]]

\* window.getComputedStyle(el).getPropertyValue(prop)
ComputedValue(head, links, width, el, prop) ==
    LET sheets == StyleSheets(head, links)
        urls == [i \in 1..Len(sheets) |-> ResolveURL(links[sheets[i]].href)]
    IN  CascadeSheets(urls, el, prop, width, 1, BaseValue(el, prop))

\* [...style].reduce((result, prop) => ({ ...result, [prop]: value }), {}):
\* the property names of a computed style are distinct, so every step adds
\* a key
getStyleObject(head, links, width, el) ==
    [i \in 1..Len(ComputedProps) |->
       <<ComputedProps[i], ComputedValue(head, links, width, el, ComputedProps[i])>>]

\* the WeakMap from element to style object, as an association list (the
\* elements of a NodeList are distinct, so every set adds a key)
getStyleMap(head, links, width, elements) ==
    [i \in 1..Len(elements) |->
       <<elements[i], getStyleObject(head, links, width, elements[i])>>]

(***************************************************************************)
(* toggleStyle / toggleStyles                                              *)
(*   a task is one toggleStyle promise: [href, kind, link, frame,          *)
(*   resolved], frame being the number of frames rendered when it started  *)
(*   raf holds the callbacks handed to requestAnimationFrame: the resolve  *)
(*   of a task (ToggleCallback) or of nextFrame (NextFrameCallback)        *)
(***************************************************************************)
NextFrameCallback == [kind |-> "nextFrame", task |-> NoSheet]
ToggleCallback(n) == [kind |-> "toggle", task |-> n]

\* a toggleStyle whose removal resolves at once, without waiting for a frame
ToggleStyleNoFrameWait(d, href) ==
    LET link == QueryLink(d.head, d.links, href)
    IN  IF link # NoSheet
        THEN [d EXCEPT
                !.head  = SelectSeq(d.head, LAMBDA l : l # link),
                !.tasks = Append(d.tasks, [href |-> href, kind |-> "remove",
                                           link |-> link, frame |-> d.frame,
                                           resolved |-> TRUE])]
        ELSE [d EXCEPT
                !.links = Append(d.links, [href |-> href, loaded |-> FALSE]),
                !.head  = Append(d.head, Len(d.links) + 1),
                !.tasks = Append(d.tasks, [href |-> href, kind |-> "append",
                                           link |-> Len(d.links) + 1,
                                           frame |-> d.frame,
                                           resolved |-> FALSE])]

\* one toggleStyle(href) executor, run on the document state d
toggleStyle(d, href) ==
    LET link == QueryLink(d.head, d.links, href)
        n == Len(d.tasks) + 1
    IN  IF link # NoSheet
        THEN [d EXCEPT
                !.head  = SelectSeq(d.head, LAMBDA l : l # link),
                !.raf   = Append(d.raf, ToggleCallback(n)),
                !.tasks = Append(d.tasks, [href |-> href, kind |-> "remove",
                                           link |-> link, frame |-> d.frame,
                                           resolved |-> FALSE])]
        ELSE [d EXCEPT
                !.links = Append(d.links, [href |-> href, loaded |-> FALSE]),
                !.head  = Append(d.head, Len(d.links) + 1),
                !.tasks = Append(d.tasks, [href |-> href, kind |-> "append",
                                           link |-> Len(d.links) + 1,
                                           frame |-> d.frame,
                                           resolved |-> FALSE])]

RECURSIVE ToggleMap(_, _, _)
ToggleMap(d, hrefs, i) ==
    IF i > Len(hrefs) THEN d
    ELSE ToggleMap(toggleStyle(d, hrefs[i]), hrefs, i + 1)

\* hrefs.map(toggleStyle): every executor runs synchronously, in order
toggleStyles(head, links, raf, frame, hrefs) ==
    ToggleMap([head |-> head, links |-> links, raf |-> raf, frame |-> frame,
               tasks |-> <<>>],
              hrefs, 1)

\* Promise.race in place of Promise.all
PromiseAny(tasks) == \E i \in 1..Len(tasks) : tasks[i].resolved

\* Promise.all(tasks) is fulfilled
PromiseAll(tasks) == \A i \in 1..Len(tasks) : tasks[i].resolved


(***************************************************************************)
(* getToggledRules                                                         *)
(***************************************************************************)
\* hrefs.map(getStyleSheet)
StyleSheetsOf(head, links, hrefs) ==
    [i \in 1..Len(hrefs) |-> getStyleSheet(head, links, hrefs[i])]

RECURSIVE ConcatRules(_, _, _, _)
ConcatRules(links, sheets, i, cssRules) ==
    IF i > Len(sheets) THEN cssRules
    ELSE ConcatRules(links, sheets, i + 1, cssRules \o CssRulesOf(links, sheets[i]))

RECURSIVE DedupSheets(_, _, _)
DedupSheets(sheets, i, res) ==
    IF i > Len(sheets) THEN res
    ELSE DedupSheets(sheets, i + 1,
                     IF sheets[i] \in Range(res) THEN res ELSE Append(res, sheets[i]))

\* the rule list with every located sheet contributing once
ToggledRulesDeduplicated(links, styleSheetsBefore, styleSheetsAfter) ==
    ConcatRules(links,
                DedupSheets(SelectSeq(styleSheetsBefore \o styleSheetsAfter,
                                      LAMBDA sheet : sheet # NoSheet), 1, <<>>),
                1, <<>>)

\* [...styleSheetsBefore, ...styleSheetsAfter].filter(s => s).reduce(concat)
ToggledRules(links, styleSheetsBefore, styleSheetsAfter) ==
    ConcatRules(links,
                SelectSeq(styleSheetsBefore \o styleSheetsAfter,
                          LAMBDA sheet : sheet # NoSheet),
                1, <<>>)

(***************************************************************************)
(* getStyleDiff: element diffs and the two reducers                        *)
(***************************************************************************)
\* rulePropsOnly && Array.from(rule.style)
RuleProps(rulePropsOnly, rule) ==
    IF rulePropsOnly THEN PropsOf(rule.style) ELSE NoProps

RECURSIVE DiffsOfRule(_, _, _, _, _, _, _)
DiffsOfRule(rule, elements, before, after, rulePropsOnly, i, res) ==
    IF i > Len(elements) THEN res
    ELSE LET changes == diffObjects(Get(before, elements[i]),
                                    Get(after, elements[i]),
                                    RuleProps(rulePropsOnly, rule))
         IN  DiffsOfRule(rule, elements, before, after, rulePropsOnly, i + 1,
               IF changes.null THEN res
               ELSE Append(res, [element      |-> elements[i],
                                 cssText      |-> rule.cssText,
                                 selectorText |-> rule.selectorText,
                                 changes      |-> changes.obj]))

RECURSIVE DiffsOfRules(_, _, _, _, _, _)
DiffsOfRules(cssRules, before, after, rulePropsOnly, i, res) ==
    IF i > Len(cssRules) THEN res
    ELSE LET elements == QuerySelectorAll(cssRules[i].selectorText)
         IN  DiffsOfRules(cssRules, before, after, rulePropsOnly, i + 1,
               IF Len(elements) = 0 THEN res
               ELSE res \o DiffsOfRule(cssRules[i], elements, before, after,
                                       rulePropsOnly, 1, <<>>))

\* the flat list of element diffs, in rule order then element order
ElementDiffs(cssRules, before, after, rulePropsOnly) ==
    DiffsOfRules(cssRules, before, after, rulePropsOnly, 1, <<>>)

PushAlways(array, element) == Append(array, element)

pushUnique(array, element) ==
    IF element \in Range(array) THEN array ELSE Append(array, element)

\* Object.assign(res[selectorText].changes, changes)
MergeChanges(target, source) == Assign(target, source)

EmptyEntry == [elements |-> <<>>, cssText |-> <<>>, changes |-> <<>>]

SquashStep(res, diff) ==
    LET entry == IF Has(res, diff.selectorText)
                 THEN Get(res, diff.selectorText) ELSE EmptyEntry
    IN  Put(res, diff.selectorText,
            [elements |-> pushUnique(entry.elements, diff.element),
             cssText  |-> pushUnique(entry.cssText, diff.cssText),
             changes  |-> MergeChanges(entry.changes, diff.changes)])

\* an itemized reducer that keeps one record per element
ItemizeStepPerElement(res, diff) ==
    LET entry == IF Has(res, diff.selectorText)
                 THEN Get(res, diff.selectorText) ELSE <<>>
    IN  Put(res, diff.selectorText,
            IF \E i \in 1..Len(entry) : entry[i].element = diff.element
            THEN entry
            ELSE Append(entry, [element |-> diff.element,
                                cssText |-> diff.cssText,
                                changes |-> diff.changes]))

ItemizeStep(res, diff) ==
    LET entry == IF Has(res, diff.selectorText)
                 THEN Get(res, diff.selectorText) ELSE <<>>
    IN  Put(res, diff.selectorText,
            Append(entry, [element |-> diff.element,
                           cssText |-> diff.cssText,
                           changes |-> diff.changes]))

RECURSIVE ReportReduce(_, _, _, _)
ReportReduce(diffs, squash, i, res) ==
    IF i > Len(diffs) THEN res
    ELSE ReportReduce(diffs, squash, i + 1,
                      IF squash THEN SquashStep(res, diffs[i])
                                ELSE ItemizeStep(res, diffs[i]))

\* the value getStyleDiff's promise resolves with
StyleDiffReport(cssRules, before, after, options) ==
    ReportReduce(ElementDiffs(cssRules, before, after, options.rulePropsOnly),
                 options.squash, 1, <<>>)

(***************************************************************************)
(* generateCounterCSS: the text as a sequence of rule blocks, each a      *)
(* selector with its declarations <<prop, before value>>                   *)
(***************************************************************************)
CounterCSS(diff) ==
    [i \in 1..Len(diff) |->
       [selectorText |-> diff[i][1],
        rules |-> [j \in 1..Len(diff[i][2].changes) |->
                     <<diff[i][2].changes[j][1], diff[i][2].changes[j][2][1]>>]]]

(***************************************************************************)
(* Options                                                                 *)
(***************************************************************************)
OptionNames == {"rulePropsOnly", "squash", "breakpoints"}

\* the options objects a caller may pass; a field outside `has` is omitted.
\* A caller who gives rulePropsOnly or squash gives it as false: given as
\* true, the field has the effect of the omitted one.
OptionsObjects ==
    {[has |-> h, rulePropsOnly |-> FALSE, squash |-> FALSE, breakpoints |-> b] :
        <<h, b>> \in
          {x \in (SUBSET OptionNames) \X SeqsUpTo(Widths, MaxBreakpoints) :
             "breakpoints" \notin x[1] => x[2] = <<>>}}

\* getStyleDiff called without an options argument: = {}
NoOptions == [has |-> {}, rulePropsOnly |-> FALSE, squash |-> FALSE,
              breakpoints |-> <<>>]

DefaultRulePropsOnly == TRUE
DefaultSquash == TRUE

\* const { rulePropsOnly = true, squash = true } = options
Destructure(options) ==
    [rulePropsOnly |-> IF "rulePropsOnly" \in options.has
                       THEN options.rulePropsOnly ELSE DefaultRulePropsOnly,
     squash        |-> IF "squash" \in options.has
                       THEN options.squash ELSE DefaultSquash]


(***************************************************************************)
(* State                                                                   *)
(***************************************************************************)
VARIABLES
    head,          \* links attached to document.head
    links,         \* every link element, by identity
    raf,           \* callbacks waiting for the next rendered frame
    frame,         \* number of frames rendered so far
    viewport,      \* viewport width
    pc,            \* where the running public operation is suspended
    call,          \* the public operation and its arguments
    tasks,         \* the toggleStyle promises of the current batch
    batchActive,   \* hrefs that had a link in head when the batch started
    startActive,   \* hrefs that had a link in head when the operation started
    frameResolved, \* nextFrame()'s promise is fulfilled
    bps,           \* getStyleDiffs: breakpoints still to run
    bp,            \* getStyleDiffs: current breakpoint
    options,       \* getStyleDiff: rulePropsOnly and squash in effect
    before,        \* getStyleDiff: style map before the toggle
    after,         \* getStyleDiff: style map after the toggle
    sheetsBefore,  \* getToggledRules: styleSheetsBefore
    cssRules,      \* getToggledRules: the rules resolved
    report,        \* the value of the latest getStyleDiff
    result,        \* getStyleDiffs: breakpoint -> report
    output,        \* generateCounterCSS: the text
    log,           \* history: the steps taken, with viewport width and frame
    reverts,       \* history: revert toggles of getStyleDiffs that resolved
    diffCase       \* a diffObjects call: arguments and result

vars == <<head, links, raf, frame, viewport, pc, call, tasks, batchActive,
          startActive, frameResolved, bps, bp, options, before, after, sheetsBefore,
          cssRules, report, result, output, log, reverts, diffCase>>

hostVars == <<head, links, raf, frame, viewport>>
diffVars == <<options, before, after, sheetsBefore, cssRules, report>>

\* hrefs that have a link in document.head
ActiveHrefs(h, l) == {l[h[i]].href : i \in 1..Len(h)}

HrefOrder == <<"a.css", "./a.css", "b.css">>

NoCall == [kind |-> "none", hrefs |-> <<>>, options |-> NoOptions]
NoDiffCase == [a |-> <<>>, b |-> <<>>, props |-> NoProps, applied |-> FALSE,
               res |-> Null]

\* a log entry: a step, the viewport width it is taken at, and the number
\* of frames rendered when it is taken
Entry(name, width, at) == [step |-> name, width |-> width, at |-> at]

\* the page as the caller finds it: some sheets attached and loaded
Init ==
    /\ \E active \in SUBSET Hrefs :
         LET hs == SelectSeq(HrefOrder, LAMBDA h : h \in active)
         IN  /\ links = [i \in 1..Len(hs) |-> [href |-> hs[i], loaded |-> TRUE]]
             /\ head = [i \in 1..Len(hs) |-> i]
    /\ raf = <<>>
    /\ frame = 0
    /\ viewport = 800
    /\ pc = "idle"
    /\ call = NoCall
    /\ tasks = <<>>
    /\ batchActive = {}
    /\ startActive = {}
    /\ frameResolved = FALSE
    /\ bps = <<>>
    /\ bp = 0
    /\ options = Destructure(NoOptions)
    /\ before = <<>>
    /\ after = <<>>
    /\ sheetsBefore = <<>>
    /\ cssRules = <<>>
    /\ report = <<>>
    /\ result = <<>>
    /\ output = <<>>
    /\ log = <<>>
    /\ reverts = 0
    /\ diffCase = NoDiffCase

(***************************************************************************)
(* Fragments shared by the actions                                         *)
(***************************************************************************)
\* toggleStyles(hrefs) is called: every link is appended or removed now
StartToggles(hrefs) ==
    LET d == toggleStyles(head, links, raf, frame, hrefs)
    IN  /\ head' = d.head
        /\ links' = d.links
        /\ raf' = d.raf
        /\ tasks' = d.tasks
        /\ batchActive' = ActiveHrefs(head, links)

\* getStyleDiff(hrefs, opts) up to the promise it returns
GetStyleDiffStart(hrefs, opts) ==
    /\ options' = Destructure(opts)
    /\ before' = getStyleMap(head, links, viewport, AllElements)
    /\ sheetsBefore' = StyleSheetsOf(head, links, hrefs)
    /\ StartToggles(hrefs)
    /\ log' = log \o <<Entry("before", viewport, frame),
                       Entry("toggle", viewport, frame)>>
    /\ pc' = "diff_wait"
    /\ UNCHANGED <<after, cssRules, report>>

\* the head of getStyleDiffs' while loop, with `remaining` breakpoints left
LoopHead(remaining) ==
    IF Len(remaining) = 0
    THEN /\ pc' = "done"
         /\ UNCHANGED <<viewport, raf, bps, bp, frameResolved, log>>
    ELSE /\ bp' = Head(remaining)
         /\ bps' = Tail(remaining)
         /\ viewport' = Head(remaining)
         /\ raf' = Append(raf, NextFrameCallback)
         /\ frameResolved' = FALSE
         /\ log' = Append(log, Entry("resize", Head(remaining), frame))
         /\ pc' = "bp_frame"

\* a continuation of the running operation is queued as a microtask:
\* it runs before the host delivers any further event
Runnable ==
    \/ pc \in {"toggle_wait", "diff_wait", "bp_revert_wait"} /\ PromiseAll(tasks)
    \/ pc = "bp_frame" /\ frameResolved
    \/ pc \in {"rules", "bp_record", "css"}

(***************************************************************************)
(* Public operations                                                       *)
(***************************************************************************)
\* toggleStyles(hrefs)
CallToggleStyles ==
    /\ pc = "idle"
    /\ startActive' = ActiveHrefs(head, links)
    /\ \E hrefs \in SeqsUpTo(Hrefs, MaxHrefs) :
         /\ call' = [kind |-> "toggleStyles", hrefs |-> hrefs, options |-> NoOptions]
         /\ StartToggles(hrefs)
    /\ pc' = "toggle_wait"
    /\ UNCHANGED <<frame, viewport, frameResolved, bps, bp, diffVars, result,
                   output, log, reverts, diffCase>>

\* getStyleDiff(hrefs, options) without breakpoints
CallGetStyleDiff ==
    /\ pc = "idle"
    /\ startActive' = ActiveHrefs(head, links)
    /\ \E hrefs \in SeqsUpTo(Hrefs, MaxHrefs) :
       \E opts \in OptionsObjects :
         /\ "breakpoints" \notin opts.has
         /\ call' = [kind |-> "getStyleDiff", hrefs |-> hrefs, options |-> opts]
         /\ GetStyleDiffStart(hrefs, opts)
    /\ UNCHANGED <<frame, viewport, frameResolved, bps, bp, result, output,
                   reverts, diffCase>>

\* getStyleDiff(hrefs, { breakpoints, ...options }) = getStyleDiffs(...)
CallGetStyleDiffs ==
    /\ pc = "idle"
    /\ startActive' = ActiveHrefs(head, links)
    /\ \E hrefs \in SeqsUpTo(Hrefs, MaxHrefs) :
       \E opts \in OptionsObjects :
         /\ "breakpoints" \in opts.has
         /\ call' = [kind |-> "getStyleDiffs", hrefs |-> hrefs, options |-> opts]
         /\ LoopHead(opts.breakpoints)
    /\ UNCHANGED <<head, links, frame, tasks, batchActive, diffVars, result,
                   output, reverts, diffCase>>

\* generateCounterCSS(hrefs)
CallGenerateCounterCSS ==
    /\ pc = "idle"
    /\ startActive' = ActiveHrefs(head, links)
    /\ \E hrefs \in SeqsUpTo(Hrefs, MaxHrefs) :
         /\ call' = [kind |-> "generateCounterCSS", hrefs |-> hrefs,
                     options |-> NoOptions]
         /\ GetStyleDiffStart(hrefs, NoOptions)
    /\ UNCHANGED <<frame, viewport, frameResolved, bps, bp, result, output,
                   reverts, diffCase>>

(***************************************************************************)
(* Host events                                                             *)
(***************************************************************************)
\* the next frame is rendered: every requestAnimationFrame callback runs
Frame ==
    /\ Len(raf) > 0
    /\ ~Runnable
    /\ frame' = frame + 1
    /\ raf' = <<>>
    /\ tasks' = [i \in 1..Len(tasks) |->
                   IF ToggleCallback(i) \in Range(raf)
                   THEN [tasks[i] EXCEPT !.resolved = TRUE] ELSE tasks[i]]
    /\ frameResolved' = (frameResolved \/ NextFrameCallback \in Range(raf))
    /\ UNCHANGED <<head, links, viewport, pc, call, batchActive, startActive,
                   bps, bp,
                   diffVars, result, output, log, reverts, diffCase>>

\* the sheet of an attached link finishes loading: its load listener runs
Load ==
    /\ ~Runnable
    /\ \E l \in Range(head) :
         /\ ~links[l].loaded
         /\ links' = [links EXCEPT ![l].loaded = TRUE]
         /\ tasks' = [i \in 1..Len(tasks) |->
                        IF tasks[i].kind = "append" /\ tasks[i].link = l
                        THEN [tasks[i] EXCEPT !.resolved = TRUE] ELSE tasks[i]]
    /\ UNCHANGED <<head, raf, frame, viewport, pc, call, batchActive,
                   startActive, frameResolved, bps, bp, diffVars, result, output, log,
                   reverts, diffCase>>

(***************************************************************************)
(* Continuations                                                           *)
(***************************************************************************)
\* toggleStyles(hrefs) called by the user is fulfilled
ToggleStylesThen ==
    /\ pc = "toggle_wait"
    /\ PromiseAll(tasks)
    /\ pc' = "done"
    /\ UNCHANGED <<hostVars, call, tasks, batchActive, startActive,
                   frameResolved, bps, bp,
                   diffVars, result, output, log, reverts, diffCase>>

\* getToggledRules: toggleStyles(hrefs).then(() => ...)
ToggledRulesThen ==
    /\ pc = "diff_wait"
    /\ PromiseAll(tasks)
    /\ cssRules' = ToggledRules(links, sheetsBefore,
                                StyleSheetsOf(head, links, call.hrefs))
    /\ pc' = "rules"
    /\ UNCHANGED <<hostVars, call, tasks, batchActive, startActive,
                   frameResolved, bps, bp,
                   options, before, after, sheetsBefore, report, result,
                   output, log, reverts, diffCase>>

\* getStyleDiff: getToggledRules(hrefs).then(cssRules => ...)
StyleDiffThen ==
    /\ pc = "rules"
    /\ LET snapshot == getStyleMap(head, links, viewport, AllElements)
           diff == StyleDiffReport(cssRules, before, snapshot, options)
       IN  /\ after' = snapshot
           /\ report' = diff
    /\ log' = Append(log, Entry("after", viewport, frame))
    /\ pc' = CASE call.kind = "generateCounterCSS" -> "css"
               [] call.kind = "getStyleDiffs"      -> "bp_record"
               [] OTHER                            -> "done"
    /\ UNCHANGED <<hostVars, call, tasks, batchActive, startActive,
                   frameResolved, bps, bp,
                   options, before, sheetsBefore, cssRules, result, output,
                   reverts, diffCase>>

\* generateCounterCSS: getStyleDiff(hrefs).then(diff => ...)
CounterCSSThen ==
    /\ pc = "css"
    /\ output' = CounterCSS(report)
    /\ pc' = "done"
    /\ UNCHANGED <<hostVars, call, tasks, batchActive, startActive,
                   frameResolved, bps, bp,
                   diffVars, result, log, reverts, diffCase>>

\* getStyleDiffs: await nextFrame() is over; getStyleDiff(hrefs, options)
BreakpointFrameThen ==
    /\ pc = "bp_frame"
    /\ frameResolved
    /\ options' = Destructure(call.options)
    /\ before' = getStyleMap(head, links, viewport, AllElements)
    /\ sheetsBefore' = StyleSheetsOf(head, links, call.hrefs)
    /\ StartToggles(call.hrefs)
    /\ log' = log \o <<Entry("frame", viewport, frame),
                       Entry("before", viewport, frame),
                       Entry("toggle", viewport, frame)>>
    /\ pc' = "diff_wait"
    /\ UNCHANGED <<frame, viewport, call, startActive, frameResolved, bps, bp,
                   after, cssRules, report, result, output, reverts, diffCase>>

\* a BreakpointRecord that does not toggle the sheets back
BreakpointRecordNoRevert ==
    /\ pc = "bp_record"
    /\ result' = Put(result, bp, report)
    /\ tasks' = <<>>
    /\ log' = log \o <<Entry("record", viewport, frame),
                       Entry("revert", viewport, frame)>>
    /\ pc' = "bp_revert_wait"
    /\ UNCHANGED <<hostVars, batchActive, call, startActive, frameResolved,
                   bps, bp, diffVars, output, reverts, diffCase>>

\* getStyleDiffs: result[breakpoint] = await getStyleDiff(...);
\* toggleStyles(hrefs) is called
BreakpointRecord ==
    /\ pc = "bp_record"
    /\ result' = Put(result, bp, report)
    /\ StartToggles(call.hrefs)
    /\ log' = log \o <<Entry("record", viewport, frame),
                       Entry("revert", viewport, frame)>>
    /\ pc' = "bp_revert_wait"
    /\ UNCHANGED <<frame, viewport, call, startActive, frameResolved, bps, bp,
                   diffVars, output, reverts, diffCase>>

\* getStyleDiffs: await toggleStyles(hrefs) is over; next turn of the loop
BreakpointLoop ==
    /\ pc = "bp_revert_wait"
    /\ PromiseAll(tasks)
    /\ reverts' = reverts + 1
    /\ LoopHead(bps)
    /\ UNCHANGED <<head, links, frame, call, tasks, batchActive, startActive,
                   diffVars, result, output, diffCase>>

Next ==
    \/ CallToggleStyles
    \/ CallGetStyleDiff
    \/ CallGetStyleDiffs
    \/ CallGenerateCounterCSS
    \/ Frame
    \/ Load
    \/ ToggleStylesThen
    \/ ToggledRulesThen
    \/ StyleDiffThen
    \/ CounterCSSThen
    \/ BreakpointFrameThen
    \/ BreakpointRecord
    \/ BreakpointLoop

Spec == Init /\ [][Next]_vars


(***************************************************************************)
(* diffObjects on its own: the arguments are drawn from every pair of      *)
(* small objects and every small allow-list                                *)
(***************************************************************************)
DiffKeys == {N_margin_top, N_right, N_color}
DiffValues == {"0px", "8px"}
DiffPropLists == {<<>>, <<N_margin>>, <<N_r>>, <<N_margin_top>>, <<N_color, N_r>>}

\* the objects with keys among DiffKeys, in every insertion order
SmallObjects ==
    {o \in UNION {[1..n -> DiffKeys \X DiffValues] : n \in 0..Cardinality(DiffKeys)} :
       NoDuplicates(Keys(o))}

InitDiffObjects ==
    /\ head = <<>>
    /\ links = <<>>
    /\ raf = <<>>
    /\ frame = 0
    /\ viewport = 800
    /\ pc = "idle"
    /\ call = NoCall
    /\ tasks = <<>>
    /\ batchActive = {}
    /\ startActive = {}
    /\ frameResolved = FALSE
    /\ bps = <<>>
    /\ bp = 0
    /\ options = Destructure(NoOptions)
    /\ before = <<>>
    /\ after = <<>>
    /\ sheetsBefore = <<>>
    /\ cssRules = <<>>
    /\ report = <<>>
    /\ result = <<>>
    /\ output = <<>>
    /\ log = <<>>
    /\ reverts = 0
    /\ \E a \in SmallObjects, b \in SmallObjects :
       \E props \in {NoProps} \cup {PropsOf(l) : l \in DiffPropLists} :
         diffCase = [a |-> a, b |-> b, props |-> props, applied |-> FALSE,
                     res |-> Null]

ApplyDiffObjects ==
    /\ ~diffCase.applied
    /\ diffCase' = [diffCase EXCEPT
                      !.applied = TRUE,
                      !.res = diffObjects(diffCase.a, diffCase.b, diffCase.props)]
    /\ UNCHANGED <<hostVars, pc, call, tasks, batchActive, startActive,
                   frameResolved, bps, bp, diffVars, result, output, log,
                   reverts>>

SpecDiffObjects == InitDiffObjects /\ [][ApplyDiffObjects]_vars

(***************************************************************************)
(* Properties                                                              *)
(***************************************************************************)
\* the steps the last transition appended to the log
Logged(name) ==
    \E i \in (Len(log) + 1)..Len(log') : log'[i].step = name

\* a toggleStyle promise whose completion signal has arrived
Completed(t) ==
    IF t.kind = "remove" THEN frame > t.frame /\ t.link \notin Range(head)
                         ELSE links[t.link].loaded

\* the report of the latest diff cycle has just been resolved from the two
\* style maps (none of the three changes before the next cycle starts)
ReportReady ==
    /\ pc \in {"css", "bp_record", "done"}
    /\ Len(after) > 0

Changed(el) == Get(before, el) # Get(after, el)

\* the elements named under a selector of the report
ReportElements(selectorText) ==
    LET entry == Get(report, selectorText)
    IN  IF options.squash THEN Range(entry.elements)
        ELSE {entry[i].element : i \in 1..Len(entry)}

\* C1: in every diff cycle the "before" snapshot is the style map of the
\* document as it is before any toggle of the cycle is started (and no
\* earlier toggle is pending then), and the "after" snapshot is captured only
\* when one toggle per requested source has been started and every one of
\* them has resolved: load completed for an appended link, a frame rendered
\* after a removal.
C1_SnapshotsAroundToggles ==
    [][ /\ Logged("before") =>
             /\ \A i \in 1..Len(tasks) : tasks[i].resolved
             /\ before' = getStyleMap(head, links, viewport, AllElements)
             /\ \A i \in 1..Len(tasks') : ~tasks'[i].resolved
        /\ Logged("after") =>
             /\ Len(tasks) = Len(call.hrefs)
             /\ \A i \in 1..Len(tasks) :
                  /\ tasks[i].href = call.hrefs[i]
                  /\ tasks[i].resolved
                  /\ Completed(tasks[i])
             /\ after' = getStyleMap(head, links, viewport, AllElements)
      ]_vars

\* C1 witness: a diff finished whose two toggles were one removal and one
\* append, both resolved before the "after" snapshot was taken
C1_Witness ==
    /\ pc = "done"
    /\ call.kind = "getStyleDiff"
    /\ Len(after) > 0
    /\ Len(tasks) = 2
    /\ tasks[1].kind = "remove"
    /\ tasks[2].kind = "append"
    /\ before # after

\* C2: an element whose before and after style objects are equal is named
\* under no selector of the report (squashed or itemized, with or without
\* rulePropsOnly), and every selector that is a key of the report matches
\* at least one element that changed.
C2_NonEmission ==
    ReportReady =>
      /\ \A el \in Range(AllElements) :
           ~Changed(el) =>
             \A s \in Range(Keys(report)) : el \notin ReportElements(s)
      /\ \A s \in Range(Keys(report)) :
           \E el \in Range(QuerySelectorAll(s)) : Changed(el)

\* C2 witness: a non-empty report of a cycle in which a toggled rule matches
\* an element that did not change, in itemized mode restricted to the rule's
\* properties
C2_Witness ==
    /\ ReportReady
    /\ Len(report) > 0
    /\ ~options.squash
    /\ options.rulePropsOnly
    /\ \E i \in 1..Len(cssRules) :
         \E el \in Range(QuerySelectorAll(cssRules[i].selectorText)) :
            /\ ~Changed(el)
            /\ Has(report, cssRules[i].selectorText)

\* the keys diffObjects must report for a, b, props
ExpectedDiffKeys(a, b, props) ==
    {k \in Range(Keys(a)) \cup Range(Keys(b)) :
       /\ Get(a, k) # Get(b, k)
       /\ \/ ~props.given
          \/ \E p \in Range(props.list) :
               /\ Len(Chars(p)) <= Len(Chars(k))
               /\ SubSeq(Chars(k), 1, Len(Chars(p))) = Chars(p)}

\* C3: diffObjects(a, b, props) maps exactly the keys of a or b whose values
\* differ and that some entry of props is a prefix of (every such key when
\* props is absent) to [a[k], b[k]], and is null exactly when there is no
\* such key; so diffObjects(a, a, props) is null, no recorded pair has equal
\* members, and the restricted result is the unrestricted one filtered.
C3_DiffObjects ==
    diffCase.applied =>
      LET a == diffCase.a
          b == diffCase.b
          props == diffCase.props
          res == diffCase.res
          expected == ExpectedDiffKeys(a, b, props)
          all == ExpectedDiffKeys(a, b, NoProps)
      IN  /\ res.null <=> expected = {}
          /\ res.null => res.obj = <<>>
          /\ NoDuplicates(Keys(res.obj))
          /\ Range(Keys(res.obj)) = expected
          /\ \A k \in expected :
               /\ Get(res.obj, k) = <<Get(a, k), Get(b, k)>>
               /\ Get(res.obj, k)[1] # Get(res.obj, k)[2]
          /\ a = b => res.null
          /\ expected \subseteq all

\* C3 witness: a restricted diff that keeps a key of which a shorter entry
\* of props is a prefix and drops a changed key no entry is a prefix of
C3_Witness ==
    /\ diffCase.applied
    /\ diffCase.props = PropsOf(<<N_r>>)
    /\ ~diffCase.res.null
    /\ Keys(diffCase.res.obj) = <<N_right>>
    /\ N_color \in ExpectedDiffKeys(diffCase.a, diffCase.b, NoProps)


\* how many toggles of the current batch are for href
TogglesOf(href) == Cardinality({i \in 1..Len(tasks) : tasks[i].href = href})

IsActive(href) == href \in ActiveHrefs(head, links)

\* every toggle of the current batch has resolved, and there is one
BatchResolved ==
    /\ Len(tasks) > 0
    /\ \A i \in 1..Len(tasks) : tasks[i].resolved

\* the first toggle of each source in a batch removes the link if the source
\* was active when the batch started and appends one otherwise; a removal is
\* resolved only once a later frame has been rendered, an append only once
\* the appended link has loaded
ToggleKindsAndSignals ==
    \A i \in 1..Len(tasks) :
       /\ (\A j \in 1..(i - 1) : tasks[j].href # tasks[i].href) =>
             (tasks[i].kind = "remove" <=> tasks[i].href \in batchActive)
       /\ tasks[i].kind = "remove" =>
             \E j \in 1..Len(links) : j = tasks[i].link /\ links[j].href = tasks[i].href
       /\ tasks[i].kind = "append" =>
             links[tasks[i].link].href = tasks[i].href
       /\ tasks[i].resolved =>
             IF tasks[i].kind = "remove" THEN frame > tasks[i].frame
                                         ELSE links[tasks[i].link].loaded

\* C4 as stated: once every toggle of a batch has resolved, every requested
\* source's active state is the opposite of its state before the call.
C4_EverySourceFlipped ==
    /\ ToggleKindsAndSignals
    /\ BatchResolved =>
         \A i \in 1..Len(tasks) :
            IsActive(tasks[i].href) # (tasks[i].href \in batchActive)

\* C4 amended: a toggle of an active source removes its link and resolves
\* only after the next frame, a toggle of an inactive one appends a link and
\* resolves only after its load; once the batch has resolved, a source listed
\* an odd number of times (once, in particular) has the opposite active
\* state and a source listed an even number of times has its state of before.
C4_ToggleFlipsByParity ==
    /\ ToggleKindsAndSignals
    /\ BatchResolved =>
         \A i \in 1..Len(tasks) :
            LET href == tasks[i].href
            IN  IF TogglesOf(href) % 2 = 1
                THEN IsActive(href) # (href \in batchActive)
                ELSE IsActive(href) = (href \in batchActive)

\* C4 witness: toggleStyles of an active and an inactive source has resolved
C4_Witness ==
    /\ pc = "done"
    /\ call.kind = "toggleStyles"
    /\ BatchResolved
    /\ Len(tasks) = 2
    /\ tasks[1].kind = "remove"
    /\ tasks[2].kind = "append"
    /\ tasks[1].href # tasks[2].href

\* the element diffs of the latest cycle under one selector, in fold order
DiffsUnder(selectorText) ==
    SelectSeq(ElementDiffs(cssRules, before, after, options.rulePropsOnly),
              LAMBDA d : d.selectorText = selectorText)

\* C5: in a squashed report the selectors are those some element diff was
\* produced under; under each, elements holds every element with a diff once,
\* cssText every rule text once, and changes every property of those diffs
\* once, with the pair of the last diff (rule order, then element order)
\* that has the property; when the diff is unrestricted and all N elements
\* the selector matches changed, elements has exactly N entries.
C5_SquashedEntries ==
    (ReportReady /\ options.squash) =>
      LET all == ElementDiffs(cssRules, before, after, options.rulePropsOnly)
      IN
      /\ NoDuplicates(Keys(report))
      /\ Range(Keys(report)) = {all[i].selectorText : i \in 1..Len(all)}
      /\ \A s \in Range(Keys(report)) :
           LET entry == Get(report, s)
               diffs == SelectSeq(all, LAMBDA d : d.selectorText = s)
               props == UNION {Range(Keys(diffs[i].changes)) : i \in 1..Len(diffs)}
               last(k) == CHOOSE i \in 1..Len(diffs) :
                            /\ Has(diffs[i].changes, k)
                            /\ \A j \in (i + 1)..Len(diffs) : ~Has(diffs[j].changes, k)
               matched == QuerySelectorAll(s)
           IN  /\ NoDuplicates(entry.elements)
               /\ Range(entry.elements) = {diffs[i].element : i \in 1..Len(diffs)}
               /\ NoDuplicates(entry.cssText)
               /\ Range(entry.cssText) = {diffs[i].cssText : i \in 1..Len(diffs)}
               /\ NoDuplicates(Keys(entry.changes))
               /\ Range(Keys(entry.changes)) = props
               /\ \A k \in props :
                    Get(entry.changes, k) = Get(diffs[last(k)].changes, k)
               /\ (~options.rulePropsOnly /\ \A el \in Range(matched) : Changed(el))
                    => Len(entry.elements) = Len(matched)

\* C5 witness: a squashed entry for a selector that two toggled rules share,
\* with two elements that changed the same property by different pairs: the
\* entry holds the later element's pair
C5_Witness ==
    /\ ReportReady
    /\ options.squash
    /\ ~options.rulePropsOnly
    /\ Has(report, ".box")
    /\ LET entry == Get(report, ".box")
           diffs == DiffsUnder(".box")
       IN  /\ Len(entry.elements) = 2
           /\ Len(entry.cssText) = 2
           /\ Len(diffs) = 4
           /\ Get(diffs[1].changes, N_padding_top) # Get(diffs[4].changes, N_padding_top)
           /\ Get(entry.changes, N_padding_top) = Get(diffs[4].changes, N_padding_top)

\* the (toggled rule, matching element) pairs under a selector whose diff,
\* restricted as the options say, is not null
NonEmptyPairs(selectorText) ==
    {<<i, el>> \in (1..Len(cssRules)) \X Range(AllElements) :
       /\ cssRules[i].selectorText = selectorText
       /\ el \in Range(QuerySelectorAll(selectorText))
       /\ ~diffObjects(Get(before, el), Get(after, el),
                       RuleProps(options.rulePropsOnly, cssRules[i])).null}

\* C6 as stated: in an itemized report the number of entries under a
\* selector equals the number of elements matching it whose diff was
\* non-empty (under some toggled rule with that selector).
C6_OneEntryPerElement ==
    (ReportReady /\ ~options.squash) =>
      \A s \in Range(Keys(report)) :
         Len(Get(report, s)) = Cardinality({p[2] : p \in NonEmptyPairs(s)})

\* C6 amended: in an itemized report the selectors are those of the toggled
\* rules with a non-empty diff, and the number of entries under a selector equals the
\* number of (toggled rule, matching element) pairs with that selector whose
\* diff was non-empty: one entry per rule and element, each with the rule's
\* text.
C6_OneEntryPerRuleAndElement ==
    (ReportReady /\ ~options.squash) =>
      \A s \in {cssRules[i].selectorText : i \in 1..Len(cssRules)}
               \cup Range(Keys(report)) :
         LET pairs == NonEmptyPairs(s)
             entries == Get(report, s)
         IN  IF pairs = {} THEN ~Has(report, s)
             ELSE /\ Has(report, s)
                  /\ Len(entries) = Cardinality(pairs)
                  /\ \A p \in pairs :
                       \E j \in 1..Len(entries) :
                          /\ entries[j].element = p[2]
                          /\ entries[j].cssText = cssRules[p[1]].cssText

\* C6 witness: an itemized report with more entries under a selector than
\* elements the selector matches
C6_Witness ==
    /\ ReportReady
    /\ ~options.squash
    /\ Has(report, ".box")
    /\ Len(Get(report, ".box")) > Len(QuerySelectorAll(".box"))


\* a diff cycle has started for the running operation
DiffStarted == call.kind # "none" /\ Len(before) > 0

\* C7 as stated: a diff whose options omit rulePropsOnly runs with
\* rulePropsOnly = false, and one whose options omit squash with
\* squash = true, in a plain diff, in each cycle of a breakpoint run and in
\* the diff of generateCounterCSS.
C7_DefaultsAsStated ==
    DiffStarted =>
      /\ "rulePropsOnly" \notin call.options.has => options.rulePropsOnly = FALSE
      /\ "squash" \notin call.options.has => options.squash = TRUE

\* the steps of one breakpoint's cycle, in order
CycleSteps == <<"resize", "frame", "before", "toggle", "after", "record", "revert">>

\* C8: in a breakpoint run the steps taken so far are an initial part of:
\* for each width in list order, resize, frame awaited, before snapshot,
\* toggle, after snapshot, record, revert toggle, each at that width, a
\* frame being rendered between a resize and the snapshot after it;
\* whenever a width's resize has been issued, no toggle is pending (the
\* revert of the width before has resolved) and no toggle callback waits for
\* a frame; viewport is the width of the cycle under way.
C8_BreakpointsInSequence ==
    call.kind = "getStyleDiffs" =>
      LET widths == call.options.breakpoints
          n == Len(CycleSteps)
      IN  /\ Len(log) <= n * Len(widths)
          /\ \A i \in 1..Len(log) :
               /\ log[i].step = CycleSteps[((i - 1) % n) + 1]
               /\ log[i].width = widths[((i - 1) \div n) + 1]
               /\ i > 1 => log[i].at >= log[i - 1].at
               /\ (i > 1 /\ log[i].step = "frame") => log[i].at > log[i - 1].at
          /\ Len(log) > 0 =>
               /\ viewport = log[Len(log)].width
               /\ log[Len(log)].step \in {"resize", "after"} =>
                    /\ \A i \in 1..Len(tasks) :
                         tasks[i].resolved /\ Completed(tasks[i])
                    /\ \A i \in 1..Len(raf) : raf[i].kind # "toggle"
          /\ pc = "done" => Len(log) = n * Len(widths)

\* C8 witness: the second of two breakpoints has been resized to after the
\* revert toggles of the first, for two sources, resolved
C8_Witness ==
    /\ call.kind = "getStyleDiffs"
    /\ pc = "bp_frame"
    /\ Len(log) = Len(CycleSteps) + 1
    /\ Len(tasks) = 2
    /\ tasks[1].kind # tasks[2].kind
    /\ call.options.breakpoints[1] # call.options.breakpoints[2]

RunDone == pc = "done" /\ call.kind = "getStyleDiffs"

\* C9 as stated (for a run of at least one breakpoint): when the run
\* completes every requested source is deactivated.
C9_SourcesEndDeactivated ==
    (RunDone /\ Len(call.options.breakpoints) > 0) =>
      \A h \in Range(call.hrefs) : ~IsActive(h)

\* C9 amended: when a breakpoint run completes, the report has exactly one
\* key per requested width, the revert toggle has resolved once per
\* breakpoint, and every requested source has the active state it had when
\* the run started (deactivated if it started deactivated); and once a
\* width's cycle is recorded, the report under that width is the one that
\* cycle's diff resolved.
C9_RunEndState ==
    /\ RunDone =>
         /\ NoDuplicates(Keys(result))
         /\ Range(Keys(result)) = Range(call.options.breakpoints)
         /\ reverts = Len(call.options.breakpoints)
         /\ \A h \in Range(call.hrefs) : IsActive(h) <=> h \in startActive
         /\ \A h \in Range(call.hrefs) : h \notin startActive => ~IsActive(h)
    /\ (call.kind = "getStyleDiffs" /\ Len(result) > 0
          /\ pc \in {"bp_revert_wait", "done"}) =>
         /\ Has(result, viewport)
         /\ Get(result, viewport) = report
         /\ Range(Keys(result)) =
              {log[i].width : i \in {j \in 1..Len(log) : log[j].step = "record"}}

\* C9 witness: a run over two different widths has completed for a source
\* that started deactivated and another that started active, with different
\* reports under the two widths
C9_Witness ==
    /\ RunDone
    /\ Len(result) = 2
    /\ result[1][2] # result[2][2]
    /\ \E h \in Range(call.hrefs) : h \notin startActive
    /\ \E h \in Range(call.hrefs) : h \in startActive

\* the sheets getToggledRules located, before then after, undefined dropped
Located ==
    SelectSeq(sheetsBefore \o StyleSheetsOf(head, links, call.hrefs),
              LAMBDA sheet : sheet # NoSheet)

TimesLocated(sheet) == Cardinality({i \in 1..Len(Located) : Located[i] = sheet})

\* how often rule number k of a sheet occurs in the resolved rule list
TimesContributed(sheet, k) ==
    Cardinality({i \in 1..Len(cssRules) :
                   cssRules[i].sheet = sheet /\ cssRules[i].index = k})

RulesResolved == pc = "rules"

\* C10 as stated: every rule of a located sheet is in the resolved list
\* exactly once, however often the sheet was located.
C10_RulesOncePerSheet ==
    RulesResolved =>
      /\ \A i \in 1..Len(cssRules) : cssRules[i].sheet \in Range(Located)
      /\ \A sheet \in Range(Located) :
           \A k \in 1..Len(CssRulesOf(links, sheet)) :
              TimesContributed(sheet, k) = 1

\* C10 amended: the resolved list holds only rules of the sheets located for
\* the requested sources before or after the toggle, and every rule of such a
\* sheet once for each time the sheet was located (a sheet located twice
\* contributes its rules twice: nothing is deduplicated), in the order
\* located; a source for which no sheet is located contributes nothing and
\* the list is resolved all the same.
C10_RulesOncePerLocation ==
    RulesResolved =>
      LET located == Located
          times == [sheet \in Range(located) |->
                      Cardinality({i \in 1..Len(located) : located[i] = sheet})]
      IN  /\ \A i \in 1..Len(cssRules) : cssRules[i].sheet \in Range(located)
          /\ \A sheet \in Range(located) :
               \A k \in 1..Len(CssRulesOf(links, sheet)) :
                  TimesContributed(sheet, k) = times[sheet]
          /\ \A i \in 1..Len(cssRules) :
               times[cssRules[i].sheet] = 1 =>
                 \A j \in (i + 1)..Len(cssRules) :
                    cssRules[i].sheet = cssRules[j].sheet
                      => cssRules[i].index < cssRules[j].index
          /\ Len(located) > 0 => cssRules[1].sheet = located[1]

\* C10 witness: rules resolved for two sources whose sheet before the toggle
\* is the same object, so that it is located twice and its rules are in the
\* list twice, and for which no sheet is located after the toggle
C10_Witness ==
    /\ RulesResolved
    /\ Len(call.hrefs) = 2
    /\ call.hrefs[1] # call.hrefs[2]
    /\ \E sheet \in Range(Located) :
         TimesLocated(sheet) = 2 /\ TimesContributed(sheet, 1) = 2
    /\ \A i \in 1..Len(call.hrefs) :
         getStyleSheet(head, links, call.hrefs[i]) = NoSheet

\* a step is still to come: a continuation of the running operation is
\* runnable, a callback waits for the next frame (Frame is enabled), or an
\* attached link has not loaded yet (Load is enabled)
CanProgress ==
    \/ Runnable
    \/ Len(raf) > 0
    \/ \E l \in Range(head) : ~links[l].loaded

\* an operation has been called and its promise is not resolved yet
Pending == pc \notin {"idle", "done"}

\* a toggle of the current batch appended a link that a later toggle of the
\* batch removed from the head before it loaded
DetachedBeforeLoad ==
    \E i \in 1..Len(tasks) :
       /\ tasks[i].kind = "append"
       /\ ~tasks[i].resolved
       /\ tasks[i].link \notin Range(head)
       /\ ~links[tasks[i].link].loaded

\* C11 as stated: with the host firing the load event of every attached
\* link and running every frame callback, an operation that has been called
\* (toggleStyles, getStyleDiff, a breakpoint run, generateCounterCSS) never
\* stalls, for every list of sources, lists that name a source more than once
\* included: while its promise is not resolved, a host event or a
\* continuation of the operation is still to come.
C11_ToggleNeverStalls ==
    Pending => CanProgress

=============================================================================
